---- MODULE Spec2Model ----
(***************************************************************************)
(* Model of zenml/steps/base_step.py: the metaclass BaseStepMeta, which    *)
(* infers INPUT_SPEC, OUTPUT_SPEC and CONFIG of a step class from the      *)
(* signature of its process function, and BaseStep, whose constructor      *)
(* builds PARAM_SPEC from a configuration keyword and whose call operator  *)
(* binds artifacts and builds the component.                               *)
(*                                                                         *)
(* Python dicts are sequences of <<key, value>> pairs in insertion order.  *)
(* A raised exception is a record [error, msg, name]; error = "none" is a  *)
(* normal return.                                                          *)
(***************************************************************************)
EXTENDS Integers, Sequences, FiniteSets, TLC

VARIABLES classes, instances, last, pending

vars == <<classes, instances, last, pending>>

-----------------------------------------------------------------------------
(* Bounds of the model *)

MaxArgs == 2
MaxKwOnly == 1
MaxOutputs == 2
MaxKwargs == 2
MaxArtifacts == 2
MaxClasses == 2
MaxInstances == 2

-----------------------------------------------------------------------------
(* Python values and helpers *)

None == "None"
BaseArtifact == "BaseArtifact"
SINGLE_RETURN_OUT_NAME == "output"

NoError == [error |-> "none", msg |-> "", name |-> ""]
Raise(e, m, n) == [error |-> e, msg |-> m, name |-> n]

Keys(d) == {d[i][1] : i \in 1..Len(d)}
KeyList(d) == [i \in 1..Len(d) |-> d[i][1]]
HasKey(d, k) == \E i \in 1..Len(d) : d[i][1] = k
DictGet(d, k, default) ==
    IF HasKey(d, k) THEN d[CHOOSE i \in 1..Len(d) : d[i][1] = k][2] ELSE default
\* dict.update({k: v}): overwrite in place, or append a new key.
DictUpdate(d, k, v) ==
    IF HasKey(d, k)
    THEN [i \in 1..Len(d) |-> IF d[i][1] = k THEN <<k, v>> ELSE d[i]]
    ELSE Append(d, <<k, v>>)

\* All sequences over S of length at most n.
SeqUpTo(S, n) == UNION {[1..m -> S] : m \in 0..n}

-----------------------------------------------------------------------------
(* Types that may annotate a process function *)

ConfigTypes == {"CfgA", "CfgB"}          \* subclasses of BaseStepConfig
Registered == "Reg"                      \* a class with a default materializer
Unregistered == "Unreg"                  \* a class without one
ArgTypes == ConfigTypes \cup {Registered, Unregistered, None}
KwOnlyTypes == {"CfgA", Registered, Unregistered}
OutputTypes == {Registered, Unregistered}

IsClass(t) == t # None
\* issubclass(arg_type, BaseStepConfig); TypeError when arg_type is no class
issubclass_BaseStepConfig(t) == t \in ConfigTypes
\* default_materializer_factory.is_registered(t)
is_registered(t) == t = Registered

ArgNames == <<"a", "b", "c", "d">>
KwOnlyNames == <<"k1", "k2", "k3">>
OutputNames == <<"x", "y", "z", "w">>

\* The return annotation: absent, a single type, or Output(name=type, ...).
NoReturn == [kind |-> "absent", type |-> None, items |-> <<>>]
SingleReturn(t) == [kind |-> "type", type |-> t, items |-> <<>>]
OutputReturn(ts) ==
    [kind |-> "Output", type |-> None,
     items |-> [i \in 1..Len(ts) |-> <<OutputNames[i], ts[i]>>]]

ReturnSpecs ==
    {NoReturn} \cup {SingleReturn(t) : t \in OutputTypes}
               \cup {OutputReturn(ts) : ts \in SeqUpTo(OutputTypes, MaxOutputs)}

\* A process function: positional parameters (with the receiver first when
\* it is a method), an optional unannotated *args/**kwargs pair, keyword-only
\* parameters, and the return annotation.
Function(receiver, ts, star, kts, ret) ==
    [receiver |-> receiver,
     params |-> [i \in 1..Len(ts) |-> <<ArgNames[i], ts[i]>>],
     varargs |-> star,
     kwonly |-> [i \in 1..Len(kts) |-> <<KwOnlyNames[i], kts[i]>>],
     ret |-> ret]

Functions ==
    {Function(r, ts, s, kts, ret) :
        r \in BOOLEAN, ts \in SeqUpTo(ArgTypes, MaxArgs), s \in BOOLEAN,
        kts \in SeqUpTo(KwOnlyTypes, MaxKwOnly), ret \in ReturnSpecs}

\* BaseStep.process(self, *args, **kwargs)
BaseStepProcess == Function(TRUE, <<>>, TRUE, <<>>, NoReturn)

\* inspect.getfullargspec(f): args lists the positional parameters only;
\* annotations holds the annotated parameters and "return".
getfullargspec(f) ==
    [args |-> (IF f.receiver THEN <<"self">> ELSE <<>>) \o KeyList(f.params),
     annotations |->
        SelectSeq(f.params \o f.kwonly, LAMBDA p : p[2] # None)
        \o (IF f.ret.kind = "absent" THEN <<>> ELSE <<<<"return", f.ret>>>>)]

\* annotations.get("return", None)
return_annotation(spec) == DictGet(spec.annotations, "return", NoReturn)

-----------------------------------------------------------------------------
(* BaseStepMeta.__new__ *)

\* Remove the self from the signature if it exists
process_args(spec) ==
    IF spec.args # <<>> /\ spec.args[1] = "self" THEN Tail(spec.args) ELSE spec.args

\* The branch the loop body takes for an argument of type arg_type when the
\* class's CONFIG is CONFIG.  issubclass raises TypeError for a non-class.
classify_arg_no_multi(arg_type, CONFIG) ==
    IF ~IsClass(arg_type) THEN "TypeError"
    ELSE IF issubclass_BaseStepConfig(arg_type) THEN "config"
    ELSE IF is_registered(arg_type) THEN "input"
    ELSE "arg_type"

classify_arg(arg_type, CONFIG) ==
    IF ~IsClass(arg_type) THEN "TypeError"
    ELSE IF issubclass_BaseStepConfig(arg_type)
    THEN IF CONFIG # None THEN "multi_config" ELSE "config"
    ELSE IF is_registered(arg_type) THEN "input"
    ELSE "arg_type"

\* cls.INPUT_SPEC = {arg: BaseArtifact} in place of update
add_input_replacing(INPUT_SPEC, arg) == <<<<arg, BaseArtifact>>>>

\* cls.INPUT_SPEC.update({arg: BaseArtifact})
add_input(INPUT_SPEC, arg) == DictUpdate(INPUT_SPEC, arg, BaseArtifact)

\* Parse the input signature of the function, from argument i on.
RECURSIVE ParseInputs(_, _, _, _, _)
ParseInputs(spec, args, i, INPUT_SPEC, CONFIG) ==
    IF i > Len(args)
    THEN [exc |-> NoError, INPUT_SPEC |-> INPUT_SPEC, CONFIG |-> CONFIG]
    ELSE LET arg == args[i]
             arg_type == DictGet(spec.annotations, arg, None)
             branch == classify_arg(arg_type, CONFIG)
             stop(exc) == [exc |-> exc, INPUT_SPEC |-> INPUT_SPEC, CONFIG |-> CONFIG]
         IN CASE branch = "TypeError" -> stop(Raise("TypeError", "issubclass", arg))
              [] branch = "multi_config" ->
                    stop(Raise("StepInterfaceError", "multi_config", ""))
              [] branch = "config" ->
                    ParseInputs(spec, args, i + 1, INPUT_SPEC, arg_type)
              [] branch = "input" ->
                    ParseInputs(spec, args, i + 1, add_input(INPUT_SPEC, arg), CONFIG)
              [] branch = "arg_type" ->
                    stop(Raise("StepInterfaceError", "arg_type", arg))

\* Named, potentially multi, outputs: go through each and create a spec.
RECURSIVE ParseOutputItems(_, _, _)
ParseOutputItems(items, i, OUTPUT_SPEC) ==
    IF i > Len(items)
    THEN [exc |-> NoError, OUTPUT_SPEC |-> OUTPUT_SPEC]
    ELSE IF is_registered(items[i][2])
    THEN ParseOutputItems(items, i + 1,
                          DictUpdate(OUTPUT_SPEC, items[i][1], BaseArtifact))
    ELSE [exc |-> Raise("StepInterfaceError", "return_item_type", items[i][1]),
          OUTPUT_SPEC |-> OUTPUT_SPEC]

\* The single-return branch without the registry check.
single_output_unchecked(return_spec) ==
    [exc |-> NoError, OUTPUT_SPEC |-> <<<<SINGLE_RETURN_OUT_NAME, BaseArtifact>>>>]

\* If its one output, then give it a single return name.
single_output(return_spec) ==
    IF is_registered(return_spec.type)
    THEN [exc |-> NoError, OUTPUT_SPEC |-> <<<<SINGLE_RETURN_OUT_NAME, BaseArtifact>>>>]
    ELSE [exc |-> Raise("StepInterfaceError", "return_type", ""), OUTPUT_SPEC |-> <<>>]

\* Infer the returned values from annotations.get("return", None).
InferOutputs(return_spec) ==
    IF return_spec.kind = "absent"
    THEN [exc |-> NoError, OUTPUT_SPEC |-> <<>>]
    ELSE IF return_spec.kind = "Output"
    THEN ParseOutputItems(return_spec.items, 1, <<>>)
    ELSE single_output(return_spec)

\* A class statement: the base class (an index into classes) and the process
\* function its body defines, if any.
ClassStatement(base, own, f) == [base |-> base, own |-> own, process |-> f]

\* getattr(cls, STEP_INNER_FUNC_NAME): the class's own process, else the
\* one it inherits.
inner_func(clss, stmt) ==
    IF stmt.own THEN stmt.process ELSE clss[stmt.base].process

\* The whole of __new__: the new class, or the exception it raises.
BaseStepMeta_new(clss, stmt) ==
    LET f == inner_func(clss, stmt)
        process_spec == getfullargspec(f)
        ins == ParseInputs(process_spec, process_args(process_spec), 1, <<>>, None)
        outs == InferOutputs(return_annotation(process_spec))
        exc == IF ins.exc.error # "none" THEN ins.exc ELSE outs.exc
    IN [exc |-> exc,
        cls |-> [base |-> stmt.base, process |-> f,
                 INPUT_SPEC |-> ins.INPUT_SPEC,
                 OUTPUT_SPEC |-> outs.OUTPUT_SPEC,
                 CONFIG |-> ins.CONFIG]]

\* The class table after the module is imported: BaseStep itself, built by
\* its metaclass from process(self, *args, **kwargs).
BaseStepClass == BaseStepMeta_new(<<>>, ClassStatement(0, TRUE, BaseStepProcess)).cls

-----------------------------------------------------------------------------
(* Values passed to the constructor *)

PyInt(n) == [type |-> "int", int |-> n, str |-> ""]
PyStr(s) == [type |-> "str", int |-> 0, str |-> s]
PyObject == [type |-> "object", int |-> 0, str |-> ""]
PyValues == {PyInt(1), PyInt(12), PyStr("s"), PyObject}

Digit(n) == <<"0", "1", "2", "3", "4", "5", "6", "7", "8", "9">>[n + 1]
RECURSIVE Decimal(_)
Decimal(n) == IF n < 10 THEN Digit(n) ELSE Decimal(n \div 10) \o Digit(n % 10)

json_serializable(v) == v.type \in {"int", "str"}
\* json.dumps(v) of a serializable value; it raises TypeError for the others.
json_dumps(v) ==
    IF v.type = "int" THEN Decimal(v.int) ELSE "\"" \o v.str \o "\""

FieldNameLists == {<<>>, <<"a">>, <<"n">>, <<"a", "n">>}

\* A BaseStepConfig instance: its fields, and whether its dict() raises
\* RuntimeError.  Any other value is no configuration.
Config(names, vals, raises) ==
    [kind |-> "config", raises |-> raises,
     fields |-> [i \in 1..Len(names) |-> <<names[i], vals[i]>>]]
OtherValue == [kind |-> "other", raises |-> FALSE, fields |-> <<>>]
Unbound == [kind |-> "unbound", raises |-> FALSE, fields |-> <<>>]

ConfigValues ==
    {Config(ns, vs, FALSE) : ns \in FieldNameLists, vs \in [1..2 -> PyValues]}
    \cup {Config(<<"n">>, <<PyInt(1)>>, TRUE)}

KwargNames == <<"kw1", "kw2", "kw3">>
KwargsOf(vals) == [i \in 1..Len(vals) |-> <<KwargNames[i], vals[i]>>]
KwargsSets == {KwargsOf(vs) : vs \in SeqUpTo(ConfigValues \cup {OtherValue}, MaxKwargs)}

isinstance_BaseStepConfig(v) == v.kind = "config"

-----------------------------------------------------------------------------
(* BaseStep.__init__ *)

\* {k: json.dumps(v) for k, v in model_dict.items()}
serialize(model_dict) ==
    [i \in 1..Len(model_dict) |-> <<model_dict[i][1], json_dumps(model_dict[i][2])>>]

\* The body of "for v in kwargs.values()" from value i on; config is the
\* local variable of that name, PARAM_SPEC the attribute of the instance.
RECURSIVE FindConfig(_, _, _, _)
FindConfig(kwargs, i, config, PARAM_SPEC) ==
    IF i > Len(kwargs)
    THEN [exc |-> NoError, PARAM_SPEC |-> PARAM_SPEC]
    ELSE LET v == kwargs[i][2]
             found == IF isinstance_BaseStepConfig(v) THEN v ELSE config
         IN IF found = Unbound
            THEN [exc |-> Raise("UnboundLocalError", "config", ""),
                  PARAM_SPEC |-> PARAM_SPEC]
            ELSE IF found.raises
            THEN [exc |-> Raise("StepInterfaceError", "cannot_serialize", ""),
                  PARAM_SPEC |-> PARAM_SPEC]
            ELSE IF \E j \in 1..Len(found.fields) : ~json_serializable(found.fields[j][2])
            THEN [exc |-> Raise("TypeError", "json", ""), PARAM_SPEC |-> PARAM_SPEC]
            ELSE IF serialize(found.fields) = <<>>
            THEN [exc |-> Raise("AssertionError", "no_config", ""), PARAM_SPEC |-> <<>>]
            ELSE FindConfig(kwargs, i + 1, found, serialize(found.fields))

\* generate_component(self): the component class of a step; its instances
\* expose one output handle per entry of OUTPUT_SPEC.
generate_component(cls) == [generated |-> TRUE, outputs |-> KeyList(cls.OUTPUT_SPEC)]

NoComponentClass == [generated |-> FALSE, outputs |-> <<>>]
NoComponent == [built |-> FALSE, kwargs |-> <<>>, outputs |-> <<>>]

\* The whole of __init__ on a new instance of class number c.
BaseStep_init(clss, c, nargs, kwargs) ==
    LET fresh == [cls |-> c, materializers |-> None, component |-> NoComponent,
                  PARAM_SPEC |-> <<>>, component_class |-> NoComponentClass]
        found == IF clss[c].CONFIG # None
                 THEN FindConfig(kwargs, 1, Unbound, <<>>)
                 ELSE [exc |-> NoError, PARAM_SPEC |-> <<>>]
    IN IF nargs > 0
       THEN [exc |-> Raise("StepInterfaceError", "positional_args", ""), self |-> fresh]
       ELSE IF found.exc.error # "none"
       THEN [exc |-> found.exc, self |-> [fresh EXCEPT !.PARAM_SPEC = found.PARAM_SPEC]]
       ELSE [exc |-> NoError,
             self |-> [fresh EXCEPT !.PARAM_SPEC = found.PARAM_SPEC,
                                    !.component_class = generate_component(clss[c])]]

-----------------------------------------------------------------------------
(* BaseStep.__call__ and with_materializers *)

ArtifactNames == {"a", "b", "z"}
Channels == {"ch1", "ch2"}
ArtifactSets ==
    {arts \in SeqUpTo(ArtifactNames \X Channels, MaxArtifacts) :
        \A i, j \in 1..Len(arts) : arts[i][1] = arts[j][1] => i = j}

\* Only the first of the two "basic checks" loops.
check_artifacts_extra_only(INPUT_SPEC, artifacts) ==
    LET extra == {i \in 1..Len(artifacts) : ~HasKey(INPUT_SPEC, artifacts[i][1])}
    IN IF extra # {}
       THEN Raise("ValueError", "not_defined",
                  artifacts[CHOOSE i \in extra : \A j \in extra : i <= j][1])
       ELSE NoError

\* The two "basic checks" loops: the first keyword that is no declared
\* input, else the first declared input that is not supplied.
check_artifacts(INPUT_SPEC, artifacts) ==
    LET extra == {i \in 1..Len(artifacts) : ~HasKey(INPUT_SPEC, artifacts[i][1])}
        missing == {i \in 1..Len(INPUT_SPEC) : ~HasKey(artifacts, INPUT_SPEC[i][1])}
        first(S) == CHOOSE i \in S : \A j \in S : i <= j
    IN IF extra # {}
       THEN Raise("ValueError", "not_defined", artifacts[first(extra)][1])
       ELSE IF missing # {}
       THEN Raise("ValueError", "not_connected", INPUT_SPEC[first(missing)][1])
       ELSE NoError

\* f(**artifacts, **PARAM_SPEC): a keyword given twice is a TypeError
\* raised before f is entered.
merge_keywords(artifacts, PARAM_SPEC) ==
    LET dup == {i \in 1..Len(PARAM_SPEC) : HasKey(artifacts, PARAM_SPEC[i][1])}
    IN IF dup # {}
       THEN [exc |-> Raise("TypeError", "multiple_values",
                           PARAM_SPEC[CHOOSE i \in dup : \A j \in dup : i <= j][1]),
             kwargs |-> <<>>]
       ELSE [exc |-> NoError, kwargs |-> artifacts \o PARAM_SPEC]

\* An instance of the generated component class.
new_component(component_class, kwargs) ==
    [built |-> TRUE, kwargs |-> kwargs,
     outputs |-> [i \in 1..Len(component_class.outputs) |->
                    <<component_class.outputs[i], [handle |-> component_class.outputs[i]]>>]]

\* Resolve the returns in the right order; one return is not a list.
resolve_returns(OUTPUT_SPEC, component) ==
    LET returns == [i \in 1..Len(OUTPUT_SPEC) |->
                      DictGet(component.outputs, OUTPUT_SPEC[i][1], [handle |-> None])]
    IN IF Len(returns) = 1
       THEN [kind |-> "handle", items |-> <<returns[1]>>]
       ELSE [kind |-> "list", items |-> returns]

NoReturnValue == [kind |-> "none", items |-> <<>>]

\* The whole of __call__ on instance self of class cls.
BaseStep_call(cls, self, artifacts) ==
    LET checked == check_artifacts(cls.INPUT_SPEC, artifacts)
        merged == merge_keywords(artifacts, self.PARAM_SPEC)
        component == new_component(self.component_class, merged.kwargs)
    IN IF checked.error # "none"
       THEN [exc |-> checked, self |-> self, returns |-> NoReturnValue]
       ELSE IF merged.exc.error # "none"
       THEN [exc |-> merged.exc, self |-> self, returns |-> NoReturnValue]
       ELSE [exc |-> NoError,
             self |-> [self EXCEPT !.component = component],
             returns |-> resolve_returns(cls.OUTPUT_SPEC, component)]

\* materializers kept on the class: every instance of the class sees them.
with_materializers_on_class(insts, i, materializers) ==
    [j \in 1..Len(insts) |->
        IF insts[j].cls = insts[i].cls
        THEN [insts[j] EXCEPT !.materializers = materializers] ELSE insts[j]]

\* with_materializers on instance i of the instance table.
with_materializers(insts, i, materializers) ==
    [insts EXCEPT ![i].materializers = materializers]

-----------------------------------------------------------------------------
(* The state machine *)

\* last: the operation that ran last, its inputs and its outcome.
NoStatement == ClassStatement(0, TRUE, BaseStepProcess)
NoInstance == [cls |-> 0, materializers |-> None, component |-> NoComponent,
               PARAM_SPEC |-> <<>>, component_class |-> NoComponentClass]
Start ==
    [op |-> "import", exc |-> NoError, cls |-> 0, target |-> 0,
     stmt |-> NoStatement, nargs |-> 0, kwargs |-> <<>>, artifacts |-> <<>>,
     self |-> NoInstance, returns |-> NoReturnValue]

\* pending: the statement the program is about to execute, if it is fixed.
Idle == [op |-> "idle", stmt |-> NoStatement, cls |-> 0, nargs |-> 0, kwargs |-> <<>>]
NewRequest(stmt) == [Idle EXCEPT !.op = "__new__", !.stmt = stmt]
InitRequest(c, nargs, kwargs) ==
    [Idle EXCEPT !.op = "__init__", !.cls = c, !.nargs = nargs, !.kwargs = kwargs]

\* class C(classes[stmt.base]): ...
DefineClass(stmt) ==
    /\ Len(classes) < MaxClasses
    /\ stmt.base \in 1..Len(classes)
    /\ LET r == BaseStepMeta_new(classes, stmt)
       IN /\ classes' = IF r.exc.error = "none" THEN Append(classes, r.cls) ELSE classes
          /\ last' = [Start EXCEPT !.op = "__new__", !.exc = r.exc, !.stmt = stmt,
                                   !.cls = IF r.exc.error = "none"
                                           THEN Len(classes) + 1 ELSE 0]
    /\ UNCHANGED instances

\* classes[c](*args, **kwargs)
Construct(c, nargs, kwargs) ==
    /\ Len(instances) < MaxInstances
    /\ c \in 1..Len(classes)
    /\ LET r == BaseStep_init(classes, c, nargs, kwargs)
       IN /\ instances' = IF r.exc.error = "none"
                          THEN Append(instances, r.self) ELSE instances
          /\ last' = [Start EXCEPT !.op = "__init__", !.exc = r.exc, !.cls = c,
                                   !.nargs = nargs, !.kwargs = kwargs, !.self = r.self,
                                   !.target = IF r.exc.error = "none"
                                              THEN Len(instances) + 1 ELSE 0]
    /\ UNCHANGED classes

\* instances[i](**artifacts)
Call(i, artifacts) ==
    /\ i \in 1..Len(instances)
    /\ LET self == instances[i]
           r == BaseStep_call(classes[self.cls], self, artifacts)
       IN /\ instances' = [instances EXCEPT ![i] = r.self]
          /\ last' = [Start EXCEPT !.op = "__call__", !.exc = r.exc, !.cls = self.cls,
                                   !.target = i, !.artifacts = artifacts,
                                   !.self = r.self, !.returns = r.returns]
    /\ UNCHANGED classes

\* instances[i].with_materializers(m)
WithMaterializers(i, m) ==
    /\ i \in 1..Len(instances)
    /\ instances' = with_materializers(instances, i, m)
    /\ last' = [Start EXCEPT !.op = "with_materializers", !.target = i,
                             !.cls = instances[i].cls, !.self = instances'[i]]
    /\ UNCHANGED classes

\* Execute the pending statement.
RunNew ==
    /\ pending.op = "__new__"
    /\ DefineClass(pending.stmt)
    /\ pending' = Idle

RunInit ==
    /\ pending.op = "__init__"
    /\ Construct(pending.cls, pending.nargs, pending.kwargs)
    /\ pending' = Idle

-----------------------------------------------------------------------------
(* SpecMeta: one class statement, drawn from every process function within *)
(* the bounds, executed after the module is imported.                      *)

ClassStatements == {ClassStatement(1, TRUE, f) : f \in Functions}

InitMeta ==
    /\ classes = <<BaseStepClass>>
    /\ instances = <<>>
    /\ last = Start
    /\ pending \in {NewRequest(stmt) : stmt \in ClassStatements}

NextMeta == RunNew

SpecMeta == InitMeta /\ [][NextMeta]_vars

-----------------------------------------------------------------------------
(* SpecInit: one constructor call on one of a few defined step classes.    *)

\* def process(self, a: Reg, b: Reg) -> Reg
\* def process(self, a: Reg, b: CfgA) -> Output(x=Reg, y=Reg)
\* def process(self, a: CfgA)
StepFunctions ==
    << Function(TRUE, <<Registered, Registered>>, FALSE, <<>>, SingleReturn(Registered)),
       Function(TRUE, <<Registered, "CfgA">>, FALSE, <<>>,
                OutputReturn(<<Registered, Registered>>)),
       Function(TRUE, <<"CfgA">>, FALSE, <<>>, NoReturn) >>

RECURSIVE DefineAll(_, _, _)
DefineAll(clss, fs, i) ==
    IF i > Len(fs) THEN clss
    ELSE DefineAll(Append(clss, BaseStepMeta_new(clss, ClassStatement(1, TRUE, fs[i])).cls),
                   fs, i + 1)

StepClasses == DefineAll(<<BaseStepClass>>, StepFunctions, 1)

InitInit ==
    /\ classes = StepClasses
    /\ instances = <<>>
    /\ last = Start
    /\ pending \in {InitRequest(c, n, kw) :
                        c \in 1..Len(StepClasses), n \in 0..1, kw \in KwargsSets}

NextInit == RunInit

SpecInit == InitInit /\ [][NextInit]_vars

-----------------------------------------------------------------------------
(* SpecCall: calls on one instance the constructor can return.             *)

ConstructedInstances ==
    {BaseStep_init(StepClasses, c, 0, kw).self :
        <<c, kw>> \in {x \in (1..Len(StepClasses)) \X KwargsSets :
                         BaseStep_init(StepClasses, x[1], 0, x[2]).exc.error = "none"}}

InitCall ==
    /\ classes = StepClasses
    /\ instances \in {<<self>> : self \in ConstructedInstances}
    /\ last = Start
    /\ pending = Idle

NextCall ==
    \E i \in 1..Len(instances), artifacts \in ArtifactSets :
        Call(i, artifacts) /\ UNCHANGED pending

SpecCall == InitCall /\ [][NextCall]_vars

-----------------------------------------------------------------------------
(* Properties of class construction, under SpecMeta *)

Defined == last.op = "__new__"
Succeeded == last.exc.error = "none"
NewClass == classes[last.cls]
TheFunction == last.stmt.process

IsConfigOrRegistered(t) == t \in ConfigTypes \/ t = Registered
ConfigPositions(ps) == {i \in 1..Len(ps) : ps[i][2] \in ConfigTypes}
ReturnRegistered(ret) ==
    /\ ret.kind = "type" => ret.type = Registered
    /\ ret.kind = "Output" => \A i \in 1..Len(ret.items) : ret.items[i][2] = Registered
MultiConfigRaised ==
    last.exc.error = "StepInterfaceError" /\ last.exc.msg = "multi_config"

C7_UnclassifiableRejected ==
    Defined =>
        LET ps == TheFunction.params
            bad == {i \in 1..Len(ps) : ~IsConfigOrRegistered(ps[i][2])}
            first == CHOOSE i \in bad : \A j \in bad : i <= j
        IN (bad # {} /\ Cardinality({j \in ConfigPositions(ps) : j < first}) <= 1)
              => /\ last.exc.error = "StepInterfaceError"
                 /\ last.exc.msg = "arg_type"
                 /\ last.exc.name = ps[first][1]

C9_OutputSpec ==
    Defined =>
        LET ret == TheFunction.ret
        IN /\ ~ReturnRegistered(ret) => ~Succeeded
           /\ Succeeded =>
                /\ ret.kind = "absent" => NewClass.OUTPUT_SPEC = <<>>
                /\ ret.kind = "type" =>
                      NewClass.OUTPUT_SPEC = <<<<"output", BaseArtifact>>>>
                /\ ret.kind = "Output" =>
                      /\ Len(NewClass.OUTPUT_SPEC) = Len(ret.items)
                      /\ \A i \in 1..Len(ret.items) :
                            NewClass.OUTPUT_SPEC[i] = <<ret.items[i][1], BaseArtifact>>

C9_Witness ==
    /\ Defined /\ Succeeded
    /\ TheFunction.ret.kind = "Output"
    /\ Len(NewClass.OUTPUT_SPEC) = 2
    /\ Len(TheFunction.params) > 0

-----------------------------------------------------------------------------
(* Properties of the constructor, under SpecInit *)

Constructed == last.op = "__init__"
RequiresConfig == classes[last.cls].CONFIG # None
ConfigKeywords == {i \in 1..Len(last.kwargs) : last.kwargs[i][2].kind = "config"}
Serializable(config) ==
    /\ ~config.raises
    /\ \A j \in 1..Len(config.fields) : config.fields[j][2].type \in {"int", "str"}

\* C1: constructing an instance of a class with a CONFIG type fails whenever
\* no keyword argument value is a configuration instance, the call without
\* keyword arguments included.
C1_ConfigRequired ==
    (Constructed /\ RequiresConfig /\ ConfigKeywords = {})
        => ~Succeeded /\ instances = <<>>

\* C2: for a class with a CONFIG type, when exactly one keyword argument
\* value is a configuration instance with at least one field, all fields
\* serializable, construction succeeds and PARAM_SPEC maps each field name
\* to its serialized string, at every position of that keyword.
C2_ParamSpec ==
    (/\ Constructed /\ RequiresConfig /\ last.nargs = 0
     /\ Cardinality(ConfigKeywords) = 1
     /\ \A i \in ConfigKeywords :
           Serializable(last.kwargs[i][2]) /\ last.kwargs[i][2].fields # <<>>)
        => /\ Succeeded
           /\ \A i \in ConfigKeywords :
                 LET fields == last.kwargs[i][2].fields
                 IN instances[last.target].PARAM_SPEC =
                       [j \in 1..Len(fields) |-> <<fields[j][1], json_dumps(fields[j][2])>>]

\* C5: a configuration value with a field that cannot be serialized makes
\* construction fail with PARAM_SPEC holding no entries, whatever the other
\* keyword arguments are.
C5_NoPartialParamSpec ==
    (/\ Constructed /\ RequiresConfig
     /\ \E i \in ConfigKeywords : ~Serializable(last.kwargs[i][2]))
        => ~Succeeded /\ last.self.PARAM_SPEC = <<>>

-----------------------------------------------------------------------------
(* Properties of the call operator, under SpecCall *)

Called == last.op = "__call__"
CalledClass == classes[last.cls]
Unexpected == Keys(last.artifacts) \ Keys(CalledClass.INPUT_SPEC)
Missing == Keys(CalledClass.INPUT_SPEC) \ Keys(last.artifacts)

\* C3: a call whose artifact names are exactly the keys of INPUT_SPEC
\* succeeds and returns one handle per entry of OUTPUT_SPEC, in its order:
\* the bare handle for one entry, a list otherwise.
C3_ExactCallReturns ==
    (Called /\ Unexpected = {} /\ Missing = {})
        => /\ Succeeded
           /\ Len(last.returns.items) = Len(CalledClass.OUTPUT_SPEC)
           /\ last.returns.kind =
                 IF Len(CalledClass.OUTPUT_SPEC) = 1 THEN "handle" ELSE "list"
           /\ \A i \in 1..Len(last.returns.items) :
                 last.returns.items[i].handle = CalledClass.OUTPUT_SPEC[i][1]

\* C4: a call whose artifact names differ from the keys of INPUT_SPEC raises
\* an error that reports an unexpected name if there is one, else a missing
\* declared name, and leaves the instance, its component included, as it was.
C4_MismatchRejected ==
    [][(Called /\ (Unexpected # {} \/ Missing # {}))'
         => /\ last'.exc.error = "ValueError"
            /\ Unexpected' # {} => last'.exc.name \in Unexpected'
            /\ Unexpected' = {} => last'.exc.name \in Missing'
            /\ instances' = instances]_vars

C4_Witness ==
    /\ Called /\ Unexpected = {} /\ Missing # {}
    /\ last.exc.error = "ValueError"
    /\ instances[last.target].component.built

-----------------------------------------------------------------------------
(* Spec: class statements, constructor calls, calls and with_materializers *)
(* interleaved, over a few inputs.                                         *)

\* def process(self, a: CfgA, b: CfgB): rejected by the metaclass
TwoConfigs == Function(TRUE, <<"CfgA", "CfgB">>, FALSE, <<>>, NoReturn)

SomeStatements ==
    {ClassStatement(1, TRUE, f) : f \in {StepFunctions[2], TwoConfigs}}
    \cup {ClassStatement(b, FALSE, BaseStepProcess) : b \in 1..Len(classes)}

SomeKwargs == {<<>>, KwargsOf(<<Config(<<"n">>, <<PyInt(1)>>, FALSE)>>)}

SomeMaterializers == {"m1"}

SomeArtifacts == {<<>>, <<<<"a", "ch1">>>>}

Init ==
    /\ classes = <<BaseStepClass>>
    /\ instances = <<>>
    /\ last = Start
    /\ pending = Idle

Next ==
    \/ \E stmt \in SomeStatements : DefineClass(stmt) /\ UNCHANGED pending
    \/ \E c \in 1..Len(classes), kwargs \in SomeKwargs :
          Construct(c, 0, kwargs) /\ UNCHANGED pending
    \/ \E i \in 1..Len(instances), artifacts \in SomeArtifacts :
          Call(i, artifacts) /\ UNCHANGED pending
    \/ \E i \in 1..Len(instances), m \in SomeMaterializers :
          WithMaterializers(i, m) /\ UNCHANGED pending

Spec == Init /\ [][Next]_vars

\* C10: no operation changes INPUT_SPEC, OUTPUT_SPEC or CONFIG of a class
\* that is already defined, a subclass definition included; an operation on
\* one instance leaves every other instance as it was, and
\* with_materializers changes only the materializers of its instance.
C10_Frame ==
    [][/\ Len(classes') >= Len(classes)
       /\ \A c \in 1..Len(classes) : classes'[c] = classes[c]
       /\ Len(instances') >= Len(instances)
       /\ \A i \in 1..Len(instances) :
             i # last'.target => instances'[i] = instances[i]
       /\ last'.op = "with_materializers" =>
             \A i \in 1..Len(instances) :
                instances'[i] =
                   [instances[i] EXCEPT !.materializers = instances'[i].materializers]
       /\ last'.op = "__new__" => instances' = instances]_vars

C10_Witness ==
    /\ last.op = "with_materializers"
    /\ Len(classes) = 2 /\ classes[2].base = 1 /\ classes[2].INPUT_SPEC # <<>>
    /\ classes[1] = BaseStepClass
    /\ Len(instances) = 2
    /\ instances[1].cls = instances[2].cls
    /\ instances[1].materializers # instances[2].materializers
    /\ instances[1].component.built

====
